---- MODULE Spec2Model ----
(***************************************************************************)
(* Reconciliation and inventory-consistency engine of SenstoSales:         *)
(* purchase orders, delivery challans (DC), stores receipt vouchers (SRV)  *)
(* and invoices kept in one SQLite database.                               *)
(*                                                                         *)
(* Quantities are stored rounded to three decimals (to_qty), so the model  *)
(* counts them in thousandths: the tolerance 0.001 is the integer 1.       *)
(* Dates are ISO dates <<year, month, day>>; comparing ISO strings is the  *)
(* lexicographic comparison of these triples.                              *)
(* The schema file (migrations/v2_consolidated_schema.sql) is not part of  *)
(* the sources: the tables carry the columns the statements of the code    *)
(* read and write, no trigger maintains a derived column and the number of *)
(* a DC or of an invoice is not unique across financial years.             *)
(***************************************************************************)
EXTENDS Integers, Sequences, FiniteSets, TLC

VARIABLES db, conn, lock, last, nops, scope

vars == <<db, conn, lock, last, nops, scope>>

\* ------------------------------------------------------------------ bounds
MaxQty == 2
MaxItems == 1
MaxOps == 3
MaxChain == 5
MaxSetup == 2
MaxScenario == 4
MaxStatusQty == 3
MaxYears == 7
MaxDeviation == 4
MaxAmend == 3
MaxFault == 3
MaxGuard == 4
MaxGuardItems == 2
MaxLink == 4
MaxAccept == 3
MaxBatches == 2
MaxBatchOps == 4

\* ------------------------------------------------------- program constants
TOLERANCE == 1
BatchSize == 10

NULL == 0
NoQty == -1
NoDate == <<0, 0, 0>>
NoItem == <<0, 0>>

PONumbers == {1}
ItemNos == {1, 2}
ItemIds == PONumbers \X ItemNos
DCNumbers == {1, 2}
InvNumbers == {1, 2}
SrvNumbers == {1, 2}
Dates == {<<2024, 5, 1>>, <<2025, 3, 31>>, <<2025, 4, 1>>}
\* whole units, in thousandths
Unit == 1000 * TOLERANCE
Qtys == {k * Unit : k \in 1..MaxQty}

\* --------------------------------------------------------------- utilities
Max(a, b) == IF a >= b THEN a ELSE b

Abs(a) == IF a >= 0 THEN a ELSE 0 - a

RECURSIVE SumSeq(_)
SumSeq(s) == IF s = <<>> THEN 0 ELSE Head(s) + SumSeq(Tail(s))

\* ISO date strings compare as the triples do
DateLE(a, b) ==
    \/ a[1] < b[1]
    \/ a[1] = b[1] /\ a[2] < b[2]
    \/ a[1] = b[1] /\ a[2] = b[2] /\ a[3] <= b[3]

\* the financial year named after the calendar year of the date
calendar_year(date) == <<date[1], (date[1] + 1) % 100>>

\* "2024-25" is the pair <<2024, 25>>
get_financial_year(date) ==
    IF date[2] >= 4
    THEN <<date[1], (date[1] + 1) % 100>>
    ELSE <<date[1] - 1, date[1] % 100>>

full_year_start(fy) == <<fy[1], 4, 1>>

full_year_end(fy) == <<2000 + fy[2], 3, 31>>

InFY(date, fy) == DateLE(full_year_start(fy), date) /\ DateLE(date, full_year_end(fy))

\* float(x or 0)
OrZero(x) == IF x = NoQty THEN 0 ELSE x

\* the comparison without the tolerance
calculate_entity_status_exact(total_ordered, total_dispatched, total_received) ==
    IF OrZero(total_ordered) > 0 /\ OrZero(total_dispatched) >= OrZero(total_ordered)
    THEN "Delivered" ELSE "Pending"

calculate_entity_status(total_ordered, total_dispatched, total_received) ==
    LET a_ord == OrZero(total_ordered)
        a_disp == OrZero(total_dispatched)
    IN IF a_ord > 0 /\ a_disp >= a_ord - TOLERANCE THEN "Delivered" ELSE "Pending"

\* ------------------------------------------------------------------ tables
NoItemRow ==
    [present |-> FALSE, status |-> "", ord_qty |-> 0, dsp_qty |-> 0,
     rcd_qty |-> 0, rej_qty |-> 0, pending_qty |-> NoQty]

EmptyDB ==
    [purchase_orders |-> [p \in PONumbers |-> [present |-> FALSE, po_status |-> ""]],
     purchase_order_items |-> [i \in ItemIds |-> NoItemRow],
     delivery_challans |-> <<>>,
     delivery_challan_items |-> <<>>,
     gst_invoices |-> <<>>,
     gst_invoice_items |-> <<>>,
     srvs |-> <<>>,
     srv_items |-> <<>>,
     deviations |-> <<>>]

\* SELECT COALESCE(SUM(dsp_qty), 0) FROM delivery_challan_items WHERE po_item_id = i
SumDsp(d, i) ==
    SumSeq([k \in 1..Len(d.delivery_challan_items) |->
              IF d.delivery_challan_items[k].po_item_id = i
              THEN d.delivery_challan_items[k].dsp_qty ELSE 0])

\* ... WHERE dc_number = n AND po_item_id = i
SumDspOfDC(d, n, i) ==
    SumSeq([k \in 1..Len(d.delivery_challan_items) |->
              IF d.delivery_challan_items[k].po_item_id = i
                 /\ d.delivery_challan_items[k].dc_number = n
              THEN d.delivery_challan_items[k].dsp_qty ELSE 0])

\* a check that takes every PO item for dispatched
HasDCItemAssumed(d, i) == TRUE

HasDCItem(d, i) ==
    \E k \in 1..Len(d.delivery_challan_items) : d.delivery_challan_items[k].po_item_id = i

\* SELECT SUM(rcd_qty) / SUM(rej_qty) FROM srv_items WHERE po_number = .. AND po_item_no = ..
SumRcd(d, i) ==
    SumSeq([k \in 1..Len(d.srv_items) |->
              IF d.srv_items[k].po_number = i[1] /\ d.srv_items[k].po_item_no = i[2]
              THEN d.srv_items[k].rcd_qty ELSE 0])

SumRej(d, i) ==
    SumSeq([k \in 1..Len(d.srv_items) |->
              IF d.srv_items[k].po_number = i[1] /\ d.srv_items[k].po_item_no = i[2]
              THEN d.srv_items[k].rej_qty ELSE 0])

ItemsOfPO(d, po) == {i \in ItemIds : i[1] = po /\ d.purchase_order_items[i].present}

RECURSIVE SumSet(_, _)
SumSet(S, f) ==
    IF S = {} THEN 0
    ELSE LET x == CHOOSE y \in S : TRUE IN f[x] + SumSet(S \ {x}, f)

\* --------------------------------------------------- reconciliation engine
\* Item status from the quantities read at the start of sync_po
item_status_updates(d, po) ==
    [i \in ItemsOfPO(d, po) |->
        calculate_entity_status(d.purchase_order_items[i].ord_qty,
                                d.purchase_order_items[i].dsp_qty,
                                d.purchase_order_items[i].rcd_qty)]

\* a reconciliation that computes the PO status from the totals read at its start
sync_po_stale_total(d, po) ==
    LET items == ItemsOfPO(d, po)
        st == item_status_updates(d, po)
        row(i) ==
            LET r == d.purchase_order_items[i]
                dsp == IF HasDCItem(d, i) THEN SumDsp(d, i) ELSE r.dsp_qty
            IN [r EXCEPT !.status = st[i],
                         !.rcd_qty = SumRcd(d, i),
                         !.rej_qty = SumRej(d, i),
                         !.dsp_qty = dsp,
                         !.pending_qty = Max(0, r.ord_qty - dsp)]
        poi == [i \in ItemIds |-> IF i \in items THEN row(i) ELSE d.purchase_order_items[i]]
        po_status ==
            calculate_entity_status(
                SumSet(items, [i \in items |-> d.purchase_order_items[i].ord_qty]),
                SumSet(items, [i \in items |-> d.purchase_order_items[i].dsp_qty]),
                SumSet(items, [i \in items |-> d.purchase_order_items[i].rcd_qty]))
    IN IF items = {} THEN d
       ELSE [d EXCEPT !.purchase_order_items = poi,
                      !.purchase_orders =
                          [p \in PONumbers |->
                              IF p = po /\ d.purchase_orders[p].present
                              THEN [d.purchase_orders[p] EXCEPT !.po_status = po_status]
                              ELSE d.purchase_orders[p]]]

sync_po(d, po) ==
    LET items == ItemsOfPO(d, po)
        st == item_status_updates(d, po)
        row(i) ==
            LET r == d.purchase_order_items[i]
                dsp == IF HasDCItem(d, i) THEN SumDsp(d, i) ELSE r.dsp_qty
            IN [r EXCEPT !.status = st[i],
                         !.rcd_qty = SumRcd(d, i),
                         !.rej_qty = SumRej(d, i),
                         !.dsp_qty = dsp,
                         !.pending_qty = Max(0, r.ord_qty - dsp)]
        poi == [i \in ItemIds |-> IF i \in items THEN row(i) ELSE d.purchase_order_items[i]]
        po_status ==
            calculate_entity_status(SumSet(items, [i \in items |-> poi[i].ord_qty]),
                                    SumSet(items, [i \in items |-> poi[i].dsp_qty]),
                                    SumSet(items, [i \in items |-> poi[i].rcd_qty]))
    IN IF items = {} THEN d
       ELSE [d EXCEPT !.purchase_order_items = poi,
                      !.purchase_orders =
                          [p \in PONumbers |->
                              IF p = po /\ d.purchase_orders[p].present
                              THEN [d.purchase_orders[p] EXCEPT !.po_status = po_status]
                              ELSE d.purchase_orders[p]]]

reconcile_po(d, po) == sync_po(d, po)

\* rows of a table with a given DC number, in rowid order
DCRows(d, n) == SelectSeq(d.delivery_challans, LAMBDA r : r.dc_number = n)

reconcile_dc(d, n) ==
    IF DCRows(d, n) = <<>> THEN d ELSE sync_po(d, Head(DCRows(d, n)).po_number)

\* ------------------------------------------------------------- validation
\* a duplicate check that also looks at the documents of the other type
check_duplicate_number_cross(d, doc_type, number, date) ==
    LET fy == get_financial_year(date)
    IN [exists |-> \/ \E k \in 1..Len(d.delivery_challans) :
                         /\ d.delivery_challans[k].dc_number = number
                         /\ InFY(d.delivery_challans[k].dc_date, fy)
                   \/ \E k \in 1..Len(d.gst_invoices) :
                         /\ d.gst_invoices[k].invoice_number = number
                         /\ InFY(d.gst_invoices[k].invoice_date, fy),
        financial_year |-> fy]

\* ValidationService.check_duplicate_number: same-type rows with the number and
\* a date inside the bounds of the financial year of `date`
check_duplicate_number(d, doc_type, number, date) ==
    LET fy == get_financial_year(date)
        rows == IF doc_type = "DC" THEN d.delivery_challans ELSE d.gst_invoices
        hit(r) == (IF doc_type = "DC" THEN r.dc_number = number /\ InFY(r.dc_date, fy)
                   ELSE r.invoice_number = number /\ InFY(r.invoice_date, fy))
    IN [exists |-> \E k \in 1..Len(rows) : hit(rows[k]), financial_year |-> fy]

validate_dc_header(d, dc_number, dc_date) ==
    IF dc_number = NULL \/ dc_date = NoDate THEN "VALIDATION_ERROR"
    ELSE IF check_duplicate_number(d, "DC", dc_number, dc_date).exists THEN "CONFLICT"
    ELSE "OK"

\* one line of validate_dc_items
validate_dc_item(d, item, exclude_dc) ==
    LET i == item.po_item_id
        global_dispatched ==
            SumDsp(d, i) - (IF exclude_dc = NULL THEN 0 ELSE SumDspOfDC(d, exclude_dc, i))
        remaining_global == d.purchase_order_items[i].ord_qty - global_dispatched
    IN IF i = NoItem THEN "VALIDATION_ERROR"
       ELSE IF item.dsp_qty = NoQty \/ item.dsp_qty <= 0 THEN "VALIDATION_ERROR"
       ELSE IF d.purchase_order_items[i].present
               /\ item.dsp_qty > remaining_global + TOLERANCE
            THEN "BUSINESS_RULE_VIOLATION"
       ELSE "OK"

RECURSIVE validate_dc_items(_, _, _)
validate_dc_items(d, items, exclude_dc) ==
    IF items = <<>> THEN "OK"
    ELSE IF validate_dc_item(d, Head(items), exclude_dc) # "OK"
         THEN validate_dc_item(d, Head(items), exclude_dc)
    ELSE validate_dc_items(d, Tail(items), exclude_dc)

\* a link check that finds nothing
check_document_unlinked(d, dc_number) == NULL

\* first invoice number linked to the DC number, or NULL
check_document_linked(d, dc_number) ==
    LET rows == SelectSeq(d.gst_invoices, LAMBDA r : r.dc_number = dc_number)
    IN IF rows = <<>> THEN NULL ELSE Head(rows).invoice_number

\* ------------------------------------------------------- delivery challans
\* WHERE EXISTS (... poi.ord_qty - COALESCE(SUM(dsp_qty), 0) >= ? - 0.001)
inventory_guard(d, i, qty) ==
    /\ d.purchase_order_items[i].present
    /\ d.purchase_order_items[i].ord_qty - SumDsp(d, i) >= qty - TOLERANCE

DCItemRow(n, item) == [dc_number |-> n, po_item_id |-> item.po_item_id, dsp_qty |-> item.dsp_qty]

\* the loop of conditioned inserts; stops at the first insert that affects no row
RECURSIVE insert_dc_items(_, _, _)
insert_dc_items(d, n, items) ==
    IF items = <<>> THEN [db |-> d, outcome |-> "OK"]
    ELSE IF inventory_guard(d, Head(items).po_item_id, Head(items).dsp_qty)
    THEN insert_dc_items(
             [d EXCEPT !.delivery_challan_items = Append(@, DCItemRow(n, Head(items)))],
             n, Tail(items))
    ELSE [db |-> d, outcome |-> "BUSINESS_RULE_VIOLATION"]

gc_exists(d, gc, date, but) ==
    \E k \in 1..Len(d.delivery_challans) :
        /\ d.delivery_challans[k].gc_number = gc
        /\ InFY(d.delivery_challans[k].dc_date, get_financial_year(date))
        /\ d.delivery_challans[k].dc_number # but

\* what create_dc hands back for an exception raised in its try block: the domain
\* errors it re-raises keep their code, every other one becomes a failed result
create_dc_except(code) ==
    IF code \in {"VALIDATION_ERROR", "RESOURCE_NOT_FOUND", "BUSINESS_RULE_VIOLATION"}
    THEN code ELSE "INTERNAL_ERROR"

create_dc(d, dc, items) ==
    LET gc == IF dc.gc_number = NULL THEN dc.dc_number ELSE dc.gc_number
        hdr == [dc_number |-> dc.dc_number, dc_date |-> dc.dc_date,
                po_number |-> dc.po_number, gc_number |-> gc]
        d1 == [d EXCEPT !.delivery_challans = Append(@, hdr)]
        ins == insert_dc_items(d1, dc.dc_number, items)
    IN IF check_duplicate_number(d, "DC", dc.dc_number, dc.dc_date).exists
       THEN [db |-> d, outcome |-> create_dc_except("CONFLICT")]
       ELSE IF gc_exists(d, gc, dc.dc_date, NULL)
       THEN [db |-> d, outcome |-> create_dc_except("CONFLICT")]
       ELSE IF validate_dc_header(d, dc.dc_number, dc.dc_date) # "OK"
       THEN [db |-> d, outcome |-> create_dc_except(validate_dc_header(d, dc.dc_number, dc.dc_date))]
       ELSE IF validate_dc_items(d, items, NULL) # "OK"
       THEN [db |-> d, outcome |-> create_dc_except(validate_dc_items(d, items, NULL))]
       ELSE IF ins.outcome # "OK"
       THEN [db |-> ins.db, outcome |-> create_dc_except(ins.outcome)]
       ELSE [db |-> reconcile_dc(ins.db, dc.dc_number), outcome |-> "OK"]

\* the second check of update_dc, against the sums read after the old rows are deleted
RECURSIVE update_dc_items(_, _, _, _)
update_dc_items(d, n, items, used) ==
    IF items = <<>> THEN [db |-> d, outcome |-> "OK"]
    ELSE LET i == Head(items).po_item_id
             qty == Head(items).dsp_qty
             available_qty == d.purchase_order_items[i].ord_qty - used[i]
         IN IF ~d.purchase_order_items[i].present
            THEN [db |-> d, outcome |-> "RESOURCE_NOT_FOUND"]
            ELSE IF qty > available_qty + TOLERANCE
            THEN [db |-> d, outcome |-> "BUSINESS_RULE_VIOLATION"]
            ELSE update_dc_items(d, n, Tail(items), [used EXCEPT ![i] = @ + qty])

update_dc(d, dc_number, dc, items) ==
    LET gc == IF dc.gc_number = NULL THEN dc_number ELSE dc.gc_number
        d1 == [d EXCEPT !.delivery_challans =
                  [k \in 1..Len(@) |->
                      IF @[k].dc_number = dc_number
                      THEN [@[k] EXCEPT !.dc_date = dc.dc_date, !.po_number = dc.po_number,
                                        !.gc_number = gc]
                      ELSE @[k]]]
        d2 == [d1 EXCEPT !.delivery_challan_items =
                  SelectSeq(@, LAMBDA r : r.dc_number # dc_number)]
        chk == update_dc_items(d2, dc_number, items, [i \in ItemIds |-> SumDsp(d2, i)])
        d3 == [d2 EXCEPT !.delivery_challan_items =
                  @ \o [k \in 1..Len(items) |-> DCItemRow(dc_number, items[k])]]
    IN IF check_document_linked(d, dc_number) # NULL
       THEN [db |-> d, outcome |-> "CONFLICT"]
       ELSE IF dc.dc_number # dc_number
       THEN [db |-> d, outcome |-> "VALIDATION_ERROR"]
       ELSE IF validate_dc_header(d, dc.dc_number, dc.dc_date) # "OK"
       THEN [db |-> d, outcome |-> validate_dc_header(d, dc.dc_number, dc.dc_date)]
       ELSE IF validate_dc_items(d, items, dc_number) # "OK"
       THEN [db |-> d, outcome |-> validate_dc_items(d, items, dc_number)]
       ELSE IF gc_exists(d, gc, dc.dc_date, dc_number)
       THEN [db |-> d, outcome |-> "CONFLICT"]
       ELSE IF chk.outcome # "OK"
       THEN [db |-> d2, outcome |-> chk.outcome]
       ELSE [db |-> reconcile_dc(d3, dc_number), outcome |-> "OK"]

\* a check of the SRV items that finds no reference
SrvRefersNoDC(d, dc_number) == FALSE

SrvRefersDC(d, dc_number) ==
    \E k \in 1..Len(d.srv_items) : d.srv_items[k].challan_no = dc_number

delete_dc(d, dc_number) ==
    LET po_number == Head(DCRows(d, dc_number)).po_number
        d1 == [d EXCEPT !.delivery_challan_items =
                            SelectSeq(@, LAMBDA r : r.dc_number # dc_number),
                        !.delivery_challans =
                            SelectSeq(@, LAMBDA r : r.dc_number # dc_number)]
    IN IF check_document_linked(d, dc_number) # NULL
       THEN [db |-> d, outcome |-> "CONFLICT"]
       ELSE IF SrvRefersDC(d, dc_number)
       THEN [db |-> d, outcome |-> "CONFLICT"]
       ELSE IF DCRows(d, dc_number) = <<>>
       THEN [db |-> d, outcome |-> "RESOURCE_NOT_FOUND"]
       ELSE [db |-> IF po_number # NULL THEN reconcile_po(d1, po_number) ELSE d1,
             outcome |-> "OK"]

\* ---------------------------------------------------------------- invoices
\* validate_unique_number(db, "gst_invoices", "invoice_number", "financial_year", ..)
validate_unique_number(d, number, fy) ==
    \E k \in 1..Len(d.gst_invoices) :
        d.gst_invoices[k].invoice_number = number /\ d.gst_invoices[k].financial_year = fy

validate_invoice_header(invoice_data) ==
    IF \/ invoice_data.invoice_number = NULL
       \/ invoice_data.dc_number = NULL
       \/ invoice_data.invoice_date = NoDate
       \/ invoice_data.buyer_name = NULL
    THEN "VALIDATION_ERROR" ELSE "OK"

\* fetch_dc_items: the DC's rows joined with their PO item
fetch_dc_items(d, dc_number) ==
    SelectSeq(d.delivery_challan_items,
              LAMBDA r : r.dc_number = dc_number /\ d.purchase_order_items[r.po_item_id].present)

\* quantity of the consolidated invoice line of a PO item: the override of the
\* request when it names the item number, else the DC's summed dispatch
invoice_line_qty(d, invoice_data, i) ==
    LET over == SelectSeq(invoice_data.items, LAMBDA o : o.po_item_no = i[2])
    IN IF over # <<>> /\ over[Len(over)].quantity # NoQty
       THEN over[Len(over)].quantity
       ELSE SumDspOfDC(d, invoice_data.dc_number, i)

RECURSIVE invoice_lines(_, _, _)
invoice_lines(d, invoice_data, ids) ==
    IF ids = {} THEN <<>>
    ELSE LET i == CHOOSE x \in ids : \A y \in ids : x[1] < y[1] \/ (x[1] = y[1] /\ x[2] <= y[2])
             qty == invoice_line_qty(d, invoice_data, i)
             rest == invoice_lines(d, invoice_data, ids \ {i})
         IN IF qty <= 0 THEN rest
            ELSE <<[invoice_number |-> invoice_data.invoice_number,
                    po_item_no |-> i[2], quantity |-> qty]>> \o rest

create_invoice(d, invoice_data) ==
    LET n == invoice_data.invoice_number
        fy == get_financial_year(invoice_data.invoice_date)
        dc_items == fetch_dc_items(d, invoice_data.dc_number)
        ids == {dc_items[k].po_item_id : k \in 1..Len(dc_items)}
        hdr == [invoice_number |-> n, invoice_date |-> invoice_data.invoice_date,
                dc_number |-> invoice_data.dc_number, financial_year |-> fy]
        existing_invoice == check_document_linked(d, invoice_data.dc_number)
    IN IF check_duplicate_number(d, "Invoice", n, invoice_data.invoice_date).exists
       THEN [db |-> d, outcome |-> "CONFLICT", detail |-> NULL]
       ELSE IF validate_invoice_header(invoice_data) # "OK"
       THEN [db |-> d, outcome |-> "VALIDATION_ERROR", detail |-> NULL]
       ELSE IF DCRows(d, invoice_data.dc_number) = <<>>
       THEN [db |-> d, outcome |-> "RESOURCE_NOT_FOUND", detail |-> NULL]
       ELSE IF existing_invoice # NULL
       THEN [db |-> d, outcome |-> "CONFLICT", detail |-> existing_invoice]
       ELSE IF dc_items = <<>>
       THEN [db |-> d, outcome |-> "VALIDATION_ERROR", detail |-> NULL]
       ELSE [db |-> [d EXCEPT !.gst_invoices = Append(@, hdr),
                              !.gst_invoice_items = @ \o invoice_lines(d, invoice_data, ids)],
             outcome |-> "OK", detail |-> NULL]

\* the endpoint: its own checks, then the service
api_create_invoice(d, request) ==
    IF request.items = <<>>
    THEN [db |-> d, outcome |-> "VALIDATION_ERROR", detail |-> NULL]
    ELSE IF validate_unique_number(d, request.invoice_number,
                                   get_financial_year(request.invoice_date))
    THEN [db |-> d, outcome |-> "BAD_REQUEST", detail |-> NULL]
    ELSE create_invoice(d, request)

delete_invoice(d, invoice_number) ==
    LET rows == SelectSeq(d.gst_invoices, LAMBDA r : r.invoice_number = invoice_number)
    IN IF rows = <<>>
       THEN [db |-> d, outcome |-> "RESOURCE_NOT_FOUND"]
       ELSE IF SrvRefersDC(d, Head(rows).dc_number)
       THEN [db |-> d, outcome |-> "CONFLICT"]
       ELSE [db |-> [d EXCEPT !.gst_invoice_items =
                                  SelectSeq(@, LAMBDA r : r.invoice_number # invoice_number),
                              !.gst_invoices =
                                  SelectSeq(@, LAMBDA r : r.invoice_number # invoice_number)],
             outcome |-> "OK"]

\* ----------------------------------------------------------- PO ingestion
\* po_items: item number -> [ord_qty, dsp_qty] for the items of the document.
\* The upsert overwrites status, ord_qty, rcd_qty, rej_qty and dsp_qty and keeps
\* pending_qty; the items the document no longer lists are marked Cancelled.
ingest_po(d, po_number, po_items) ==
    LET up(i) ==
            [d.purchase_order_items[i] EXCEPT
                !.present = TRUE, !.status = "Active",
                !.ord_qty = po_items[i[2]].ord_qty, !.rcd_qty = 0, !.rej_qty = 0,
                !.dsp_qty = po_items[i[2]].dsp_qty]
        poi == [i \in ItemIds |->
                   IF i[1] # po_number THEN d.purchase_order_items[i]
                   ELSE IF i[2] \in DOMAIN po_items THEN up(i)
                   ELSE IF d.purchase_order_items[i].present
                   THEN [d.purchase_order_items[i] EXCEPT !.status = "Cancelled"]
                   ELSE d.purchase_order_items[i]]
    IN IF DOMAIN po_items = {}
       THEN [db |-> d, outcome |-> "VALIDATION_ERROR"]
       ELSE [db |-> [d EXCEPT !.purchase_order_items = poi,
                              !.purchase_orders[po_number] =
                                  [present |-> TRUE, po_status |-> "Open"]],
             outcome |-> "OK"]

\* -------------------------------------------------------------- SRV ingest
validate_po_exists(d, po_number) ==
    po_number \in PONumbers /\ d.purchase_orders[po_number].present

\* a logging that inserts the record twice
log_deviation_twice(d, entity_id, po_number, expected_value, actual_value) ==
    LET record == [deviation_type |-> "QTY_MISMATCH", entity_id |-> entity_id,
                   po_number |-> po_number, expected_value |-> expected_value,
                   actual_value |-> actual_value, is_resolved |-> FALSE]
    IN [d EXCEPT !.deviations = @ \o <<record, record>>]

log_deviation(d, entity_id, po_number, expected_value, actual_value) ==
    [d EXCEPT !.deviations =
        Append(@, [deviation_type |-> "QTY_MISMATCH", entity_id |-> entity_id,
                   po_number |-> po_number, expected_value |-> expected_value,
                   actual_value |-> actual_value, is_resolved |-> FALSE])]

\* a check that logs nothing
check_qty_mismatch_silent(d, srv_item_id, po_number, po_item_no, srv_ord_qty) == d

check_qty_mismatch(d, srv_item_id, po_number, po_item_no, srv_ord_qty) ==
    LET i == <<po_number, po_item_no>>
    IN IF ~(i \in ItemIds /\ d.purchase_order_items[i].present) THEN d
       ELSE IF Abs(srv_ord_qty - d.purchase_order_items[i].ord_qty) > TOLERANCE
       THEN log_deviation(d, srv_item_id, po_number,
                          d.purchase_order_items[i].ord_qty, srv_ord_qty)
       ELSE d

\* a challan number stored as the SRV line gives it
unvalidated_challan_no(d, header, item) == item.challan_no

\* the challan number stored with an SRV item: kept only when the first DC of
\* that number is dated in the SRV's financial year
validated_challan_no(d, header, item) ==
    IF item.challan_no # NULL /\ header.srv_date # NoDate
       /\ DCRows(d, item.challan_no) # <<>>
       /\ Head(DCRows(d, item.challan_no)).dc_date # NoDate
       /\ get_financial_year(Head(DCRows(d, item.challan_no)).dc_date)
              = get_financial_year(header.srv_date)
    THEN item.challan_no ELSE NULL

\* to_qty: None stays None, a number is rounded to the thousandth it is held in
to_qty(value) == IF value = NoQty THEN NoQty ELSE value

srv_item_id(header, item) == <<header.srv_number, item.po_item_no>>

SrvItemRow(d, header, item) ==
    [id |-> srv_item_id(header, item), srv_number |-> header.srv_number,
     po_number |-> header.po_number, po_item_no |-> item.po_item_no,
     rcd_qty |-> item.rcd_qty, rej_qty |-> item.rej_qty,
     accepted_qty |-> to_qty(item.accepted_qty), ord_qty |-> item.ord_qty,
     challan_no |-> validated_challan_no(d, header, item)]

\* the deviation checks of the items, in order
RECURSIVE srv_deviations(_, _, _)
srv_deviations(d, header, items) ==
    IF items = <<>> THEN d
    ELSE LET item == Head(items)
             d1 == IF item.ord_qty > 0
                   THEN check_qty_mismatch(d, srv_item_id(header, item),
                                           header.po_number, item.po_item_no, item.ord_qty)
                   ELSE d
         IN srv_deviations(d1, header, Tail(items))

\* A line without ord_qty makes `srv_ord_qty > 0` compare None with a number:
\* the loop raises there, after the header insert and the checks of the lines
\* before it and before any SRV item is inserted, and the SRV is reported failed.
ingest_srv_batch(d, srv_data) ==
    LET header == srv_data.header
        items == srv_data.items
        d1 == [d EXCEPT !.srvs = Append(@, [srv_number |-> header.srv_number,
                                            srv_date |-> header.srv_date,
                                            po_number |-> header.po_number])]
        unstated == {k \in 1..Len(items) : items[k].ord_qty = NoQty}
        first == CHOOSE k \in unstated : \A j \in unstated : k <= j
        d2 == srv_deviations(d1, header, items)
        rows == [k \in 1..Len(items) |-> SrvItemRow(d, header, items[k])]
    IN IF unstated # {}
       THEN [db |-> srv_deviations(d1, header, SubSeq(items, 1, first - 1)),
             success |-> FALSE]
       ELSE [db |-> [d2 EXCEPT !.srv_items = @ \o rows], success |-> TRUE]

delete_srv_fast(d, srv_number) ==
    [db |-> [d EXCEPT !.srv_items = SelectSeq(@, LAMBDA r : r.srv_number # srv_number),
                      !.srvs = SelectSeq(@, LAMBDA r : r.srv_number # srv_number)],
     success |-> \E k \in 1..Len(d.srvs) : d.srvs[k].srv_number = srv_number]

\* a reconciliation that refreshes nothing
reconcile_po_skipped(d, po_number) == d

reconcile_po_fast(d, po_number) == sync_po(d, po_number)

\* A connection: the committed database, the connection's view of it (with
\* its uncommitted writes) and whether a transaction is open on it.
\* sync tells whether the statements of sync_po work on it ("works"), fail
\* with a database error ("fails") or have failed ("raised").
\* batches tells, for each batch processed on it, whether it was committed or failed.
Connect(d) ==
    [committed |-> d, work |-> d, in_tx |-> FALSE, ok |-> {}, sync |-> "works", batches |-> <<>>]

\* a commit that writes nothing and leaves the transaction open
commit_deferred(c) == c

commit(c) == [c EXCEPT !.committed = c.work, !.in_tx = FALSE]
rollback(c) == [c EXCEPT !.work = c.committed, !.in_tx = FALSE]
close(c) == c.committed

\* the per-SRV loop of process_srv_batch; ok collects the SRVs reported
\* as successfully processed
RECURSIVE srv_batch_loop(_, _)
srv_batch_loop(c, srv_batch) ==
    IF srv_batch = <<>> THEN c
    ELSE LET header == Head(srv_batch).header
             existing == \E k \in 1..Len(c.work.srvs) :
                             c.work.srvs[k].srv_number = header.srv_number
             w1 == IF existing THEN delete_srv_fast(c.work, header.srv_number).db ELSE c.work
             r == ingest_srv_batch(w1, Head(srv_batch))
         IN IF header.srv_number = NULL \/ header.po_number = NULL
               \/ ~validate_po_exists(c.work, header.po_number)
            THEN srv_batch_loop(c, Tail(srv_batch))
            ELSE srv_batch_loop([c EXCEPT !.work = r.db,
                                          !.ok = IF r.success THEN @ \cup {header.srv_number}
                                                 ELSE @],
                                Tail(srv_batch))

\* reconcile_po_fast for every PO number named in the batch; the UPDATEs of
\* sync_po open a transaction on the connection
RECURSIVE srv_batch_reconcile(_, _)
srv_batch_reconcile(c, po_numbers) ==
    IF po_numbers = {} THEN c
    ELSE LET po == CHOOSE x \in po_numbers : TRUE
             c1 == IF ItemsOfPO(c.work, po) = {} THEN c
                   ELSE [c EXCEPT !.work = reconcile_po_fast(c.work, po), !.in_tx = TRUE]
         IN srv_batch_reconcile(c1, po_numbers \ {po})

\* BEGIN TRANSACTION fails when a transaction is already open on the
\* connection; the handler then rolls back and reports the whole batch failed
\* An exception of reconcile_po_fast reaches the same handler, after the commit:
\* the results appended in the loop stay in the list it returns.
process_srv_batch(c, srv_batch) ==
    IF c.in_tx THEN [rollback(c) EXCEPT !.batches = Append(@, "failed")]
    ELSE LET c1 == commit(srv_batch_loop([c EXCEPT !.in_tx = TRUE], srv_batch))
             po_numbers == {srv_batch[k].header.po_number : k \in 1..Len(srv_batch)} \ {NULL}
         IN IF c.sync # "works" /\ po_numbers # {}
            THEN [rollback(c1) EXCEPT !.sync = "raised", !.batches = Append(@, "failed")]
            ELSE [srv_batch_reconcile(c1, po_numbers) EXCEPT !.batches = Append(@, "committed")]

RECURSIVE process_srv_file(_, _)
process_srv_file(c, srv_list) ==
    IF srv_list = <<>> THEN c
    ELSE IF Len(srv_list) <= BatchSize THEN process_srv_batch(c, srv_list)
    ELSE process_srv_file(process_srv_batch(c, SubSeq(srv_list, 1, BatchSize)),
                          SubSeq(srv_list, BatchSize + 1, Len(srv_list)))

RECURSIVE upload_files(_, _)
upload_files(c, files) ==
    IF files = <<>> THEN c
    ELSE upload_files(process_srv_file(c, Head(files)), Tail(files))

\* the endpoint works on one connection, which the request closes at its end:
\* what it has not committed by then is discarded
upload_batch_srvs(d, files) ==
    LET c == upload_files(Connect(d), files)
    IN [db |-> close(c), outcome |-> "OK", ok |-> c.ok, batches |-> c.batches]

\* the same request on a connection on which the statements of sync_po fail
upload_batch_srvs_sync_raises(d, files) ==
    LET c == upload_files([Connect(d) EXCEPT !.sync = "fails"], files)
    IN [db |-> close(c), outcome |-> "OK", ok |-> c.ok, raised |-> c.sync = "raised",
        batches |-> c.batches]

\* -------------------------------------------------------------- endpoints
\* a transaction that commits whatever the handler wrote
db_transaction_commits(d, r) == r.db

\* db_transaction: BEGIN IMMEDIATE, the handler, COMMIT; any exception rolls back
db_transaction(d, r) == IF r.outcome = "OK" THEN r.db ELSE d

api_create_dc(d, dc, items) ==
    LET r == create_dc(d, dc, items)
    IN IF items = <<>> THEN [db |-> d, outcome |-> "VALIDATION_ERROR"]
       ELSE [db |-> db_transaction(d, r), outcome |-> r.outcome]

\* create_dc when reconcile_dc raises a database error: the rows are inserted,
\* the try block's handler of every other exception returns a failed result
create_dc_sync_raises(d, dc, items) ==
    LET r == create_dc(d, dc, items)
    IN IF r.outcome = "OK"
       THEN [db |-> r.db, outcome |-> create_dc_except("DATABASE_ERROR"), raised |-> TRUE]
       ELSE [db |-> r.db, outcome |-> r.outcome, raised |-> FALSE]

api_create_dc_sync_raises(d, dc, items) ==
    LET r == create_dc_sync_raises(d, dc, items)
    IN IF items = <<>> THEN [db |-> d, outcome |-> "VALIDATION_ERROR", raised |-> FALSE]
       ELSE [db |-> db_transaction(d, r), outcome |-> r.outcome, raised |-> r.raised]

api_update_dc(d, dc_number, dc, items) ==
    LET r == update_dc(d, dc_number, dc, items)
    IN IF items = <<>> THEN [db |-> d, outcome |-> "VALIDATION_ERROR"]
       ELSE [db |-> db_transaction(d, r), outcome |-> r.outcome]

api_delete_dc(d, dc_number) ==
    LET r == delete_dc(d, dc_number)
    IN [db |-> db_transaction(d, r), outcome |-> r.outcome]

create_invoice_endpoint(d, request) ==
    LET r == api_create_invoice(d, request)
    IN [db |-> db_transaction(d, r), outcome |-> r.outcome, detail |-> r.detail]

delete_invoice_endpoint(d, invoice_number) ==
    LET r == delete_invoice(d, invoice_number)
    IN [db |-> db_transaction(d, r), outcome |-> r.outcome]

delete_srv_endpoint(d, srv_number) ==
    LET po_row == SelectSeq(d.srvs, LAMBDA r : r.srv_number = srv_number)
        del == delete_srv_fast(d, srv_number)
    IN IF ~del.success THEN [db |-> d, outcome |-> "VALIDATION_ERROR"]
       ELSE [db |-> IF po_row # <<>> THEN reconcile_po_fast(del.db, Head(po_row).po_number)
                    ELSE del.db,
             outcome |-> "OK"]

\* reconcile_all: reconcile_po for every stored PO, then commit
RECURSIVE reconcile_pos(_, _)
reconcile_pos(d, po_numbers) ==
    IF po_numbers = {} THEN d
    ELSE LET po == CHOOSE x \in po_numbers : \A y \in po_numbers : x <= y
         IN reconcile_pos(reconcile_po(d, po), po_numbers \ {po})

reconcile_all(d) ==
    [db |-> reconcile_pos(d, {po \in PONumbers : d.purchase_orders[po].present}),
     outcome |-> "OK"]

\* create_po_manual / update_po: the document goes through ingest_po
process_po_update(d, po_number, po_items) ==
    LET r == ingest_po(d, po_number, po_items)
    IN [db |-> db_transaction(d, r), outcome |-> r.outcome]

\* ---------------------------------------------------------------- requests
\* A PO document: its items with their ordered quantity
PODocs(nos, qtys) ==
    UNION {[S -> [ord_qty : qtys, dsp_qty : {0}]] : S \in (SUBSET nos) \ {{}}}

DCHeaders(numbers, dates, pos) ==
    [dc_number : numbers, dc_date : dates, po_number : pos, gc_number : {NULL}]

DCItemLists(nos, qtys, n) ==
    UNION {[1..m -> [po_item_id : PONumbers \X nos, dsp_qty : qtys]] : m \in 1..n}

InvoiceRequests(numbers, dates, dcs, buyers, overrides) ==
    [invoice_number : numbers, invoice_date : dates, dc_number : dcs,
     buyer_name : buyers, items : overrides]

\* the items of an invoice request: one unit of item 1
OneUnit == <<[po_item_no |-> 1, quantity |-> Unit]>>

SrvDocs(numbers, dates, rejs) ==
    {[header |-> [srv_number |-> n, srv_date |-> dt, po_number |-> po],
      items |-> <<[po_item_no |-> 1, rcd_qty |-> Unit, rej_qty |-> rj, ord_qty |-> 0,
                   accepted_qty |-> NoQty, challan_no |-> ch]>>] :
        n \in numbers, dt \in dates, po \in PONumbers, rj \in rejs, ch \in {NULL, 1}}

\* SRVs of one line with or without an accepted quantity (NoQty: the column is
\* absent or the cell is empty)
SrvDocsAcc(numbers, dates, rejs, accs) ==
    {[header |-> [srv_number |-> n, srv_date |-> dt, po_number |-> po],
      items |-> <<[po_item_no |-> 1, rcd_qty |-> Unit, rej_qty |-> rj, ord_qty |-> 0,
                   accepted_qty |-> a, challan_no |-> NULL]>>] :
        n \in numbers, dt \in dates, po \in PONumbers, rj \in rejs, a \in accs}

\* SRVs of one line stating the ordered quantity (NoQty: the column is absent)
SrvDocsOrd(numbers, dates, ords) ==
    {[header |-> [srv_number |-> n, srv_date |-> dt, po_number |-> po],
      items |-> <<[po_item_no |-> 1, rcd_qty |-> Unit, rej_qty |-> 0, ord_qty |-> o,
                   accepted_qty |-> NoQty, challan_no |-> NULL]>>] :
        n \in numbers, dt \in dates, po \in PONumbers, o \in ords}

\* an upload: one file holding one SRV
SrvUploads(docs) == {<<(<<s>>)>> : s \in docs}

\* a file of n SRVs, numbered 1..n, of one line each for item 1 of the PO
SrvFile(n, po, date) ==
    [k \in 1..n |->
        [header |-> [srv_number |-> k, srv_date |-> date, po_number |-> po],
         items |-> <<[po_item_no |-> 1, rcd_qty |-> Unit, rej_qty |-> 0, ord_qty |-> 0,
                      accepted_qty |-> NoQty, challan_no |-> NULL]>>]]

\* files of one SRV, of one full batch and of one SRV more than MaxBatches - 1 batches
FileLens == {1, BatchSize, (MaxBatches - 1) * BatchSize + 1}

\* The requests the clients send, for each scope of exploration
Wide ==
    [po_docs |-> PODocs(ItemNos, Qtys),
     dc_headers |-> DCHeaders(DCNumbers, Dates, PONumbers \cup {NULL}),
     dc_items |-> DCItemLists(ItemNos, Qtys, MaxItems),
     dc_numbers |-> DCNumbers,
     invoices |-> InvoiceRequests(InvNumbers, {<<2024, 5, 1>>}, DCNumbers, {1}, {OneUnit}),
     inv_numbers |-> InvNumbers,
     uploads |-> SrvUploads(SrvDocs(SrvNumbers, {<<2024, 5, 1>>}, {0, Unit})),
     srv_numbers |-> SrvNumbers]

\* few documents, to follow long chains of operations on them
Chain ==
    [po_docs |-> PODocs({1}, {Unit}),
     dc_headers |-> DCHeaders({1}, {<<2024, 5, 1>>}, PONumbers),
     dc_items |-> DCItemLists({1}, {Unit}, 1),
     dc_numbers |-> {1},
     invoices |-> InvoiceRequests(InvNumbers, {<<2024, 5, 1>>, <<2025, 4, 1>>}, {1},
                                  {1}, {OneUnit}),
     inv_numbers |-> InvNumbers,
     uploads |-> SrvUploads(SrvDocs(SrvNumbers, {<<2024, 5, 1>>, <<2025, 4, 1>>}, {0})),
     srv_numbers |-> SrvNumbers]

Race ==
    [Wide EXCEPT !.po_docs = PODocs({1}, Qtys),
                 !.dc_headers = DCHeaders(DCNumbers, {<<2024, 5, 1>>}, PONumbers),
                 !.dc_items = DCItemLists({1}, Qtys, 1)]

\* the end-to-end scenario: one item ordered 100, DCs of 40, 45 and 60
Scenario ==
    [Chain EXCEPT !.po_docs = PODocs({1}, {100 * Unit}),
                  !.dc_headers = DCHeaders(DCNumbers, {<<2024, 5, 1>>}, PONumbers),
                  !.dc_items = DCItemLists({1}, {40 * Unit, 45 * Unit, 60 * Unit}, 1),
                  !.dc_numbers = DCNumbers]

\* one invoice number used in two financial years, for two DCs of one PO item
Years ==
    [Chain EXCEPT !.po_docs = PODocs({1}, {2 * Unit}),
                  !.dc_headers = DCHeaders(DCNumbers, {<<2024, 5, 1>>}, PONumbers),
                  !.dc_numbers = DCNumbers,
                  !.invoices = InvoiceRequests({1}, {<<2024, 5, 1>>, <<2025, 4, 1>>},
                                               DCNumbers, {1}, {OneUnit}),
                  !.inv_numbers = {1},
                  !.uploads = SrvUploads(SrvDocs({1}, {<<2024, 5, 1>>}, {0})),
                  !.srv_numbers = {1}]

\* SRVs whose line states an ordered quantity, for a PO item ordered 1
Deviating ==
    [Chain EXCEPT !.invoices = InvoiceRequests({1}, {<<2024, 5, 1>>}, {1}, {1}, {OneUnit}),
                  !.inv_numbers = {1},
                  !.uploads = SrvUploads(SrvDocsOrd({1}, {<<2024, 5, 1>>},
                                                    {NoQty, 0, Unit, 2 * Unit})),
                  !.srv_numbers = {1}]

\* PO documents and DCs that name their PO, for the amendment of a PO with DCs
Amending ==
    [Wide EXCEPT !.dc_headers = DCHeaders(DCNumbers, {<<2024, 5, 1>>}, PONumbers),
                 !.dc_items = DCItemLists(ItemNos, Qtys, 1)]

\* DCs of up to MaxGuardItems lines for one PO item
Guarded ==
    [Chain EXCEPT !.po_docs = PODocs({1}, {2 * Unit}),
                  !.dc_headers = DCHeaders(DCNumbers, {<<2024, 5, 1>>}, PONumbers),
                  !.dc_items = DCItemLists({1}, {Unit, 2 * Unit}, MaxGuardItems),
                  !.dc_numbers = DCNumbers]

\* a DC number used in two financial years and SRVs dated in either, or undated
Linking ==
    [Chain EXCEPT !.po_docs = PODocs({1}, {2 * Unit}),
                  !.dc_headers = DCHeaders({1}, {<<2024, 5, 1>>, <<2025, 4, 1>>}, PONumbers),
                  !.invoices = InvoiceRequests({1}, {<<2024, 5, 1>>}, {1}, {1}, {OneUnit}),
                  !.inv_numbers = {1},
                  !.uploads = SrvUploads(SrvDocs(SrvNumbers,
                                                 {NoDate, <<2024, 5, 1>>, <<2025, 4, 1>>}, {0}))]

\* SRV lines with and without an accepted quantity
Accepting ==
    [Chain EXCEPT !.uploads = SrvUploads(SrvDocsAcc(SrvNumbers, {<<2024, 5, 1>>}, {0, Unit},
                                                    {NoQty, 0, Unit}))]

\* uploads of files of one and of several batches
Batching ==
    [Chain EXCEPT !.uploads = {<<SrvFile(n, po, <<2024, 5, 1>>)>> : n \in FileLens, po \in PONumbers},
                  !.srv_numbers = {1, BatchSize + 1}]

Requests ==
    IF scope = "chain" THEN Chain
    ELSE IF scope \in {"amend", "fault"} THEN Amending
    ELSE IF scope = "deviation" THEN Deviating
    ELSE IF scope = "guard" THEN Guarded
    ELSE IF scope = "link" THEN Linking
    ELSE IF scope = "accept" THEN Accepting
    ELSE IF scope = "batch" THEN Batching
    ELSE IF scope = "years" THEN Years
    ELSE IF scope = "race" THEN Race
    ELSE IF scope = "scenario" THEN Scenario
    ELSE Wide

\* ------------------------------------------------------------------- state
\* db    : the committed database
\* last  : the operation that returned last, with its outcome
\* nops  : the number of operations still to perform
\* scope : the requests explored
Did(op, outcome, key, date, detail, ok) ==
    [op |-> op, outcome |-> outcome, key |-> key, date |-> date, detail |-> detail, ok |-> ok,
     req |-> NULL, batches |-> <<>>]

Start(sc, n) ==
    /\ db = EmptyDB
    /\ conn = <<>>
    /\ lock = NULL
    /\ last = Did("none", "OK", NULL, NoDate, NULL, {})
    /\ nops = n
    /\ scope = sc

Init == Start("wide", MaxOps)

InitChain == Start("chain", MaxChain)

InitScenario == Start("scenario", MaxScenario)

InitYears == Start("years", MaxYears)

InitDeviation == Start("deviation", MaxDeviation)

InitAmend == Start("amend", MaxAmend)

InitFault == Start("fault", MaxFault)

InitGuard == Start("guard", MaxGuard)

InitLink == Start("link", MaxLink)

InitAccept == Start("accept", MaxAccept)

InitBatch == Start("batch", MaxBatchOps)

IngestPO ==
    /\ nops > 0 /\ lock = NULL
    /\ \E po \in PONumbers, doc \in Requests.po_docs :
           LET r == process_po_update(db, po, doc)
           IN /\ db' = r.db
              /\ last' = Did("ingest_po", r.outcome, po, NoDate, NULL, {})
    /\ nops' = nops - 1
    /\ UNCHANGED <<conn, lock, scope>>

CreateDC ==
    /\ nops > 0 /\ lock = NULL
    /\ \E dc \in Requests.dc_headers, items \in Requests.dc_items :
           LET r == api_create_dc(db, dc, items)
           IN /\ db' = r.db
              /\ last' = [Did("create_dc", r.outcome, dc.dc_number, dc.dc_date,
                              items[1].dsp_qty, {}) EXCEPT !.req = items]
    /\ nops' = nops - 1
    /\ UNCHANGED <<conn, lock, scope>>

UpdateDC ==
    /\ nops > 0 /\ lock = NULL
    /\ \E dc \in Requests.dc_headers, items \in Requests.dc_items :
           LET r == api_update_dc(db, dc.dc_number, dc, items)
           IN /\ db' = r.db
              /\ last' = [Did("update_dc", r.outcome, dc.dc_number, dc.dc_date, NULL, {})
                              EXCEPT !.req = items]
    /\ nops' = nops - 1
    /\ UNCHANGED <<conn, lock, scope>>

DeleteDC ==
    /\ nops > 0 /\ lock = NULL
    /\ \E n \in Requests.dc_numbers :
           LET r == api_delete_dc(db, n)
           IN /\ db' = r.db
              /\ last' = Did("delete_dc", r.outcome, n, NoDate, NULL, {})
    /\ nops' = nops - 1
    /\ UNCHANGED <<conn, lock, scope>>

CreateInvoice ==
    /\ nops > 0 /\ lock = NULL
    /\ \E request \in Requests.invoices :
           LET r == create_invoice_endpoint(db, request)
           IN /\ db' = r.db
              /\ last' = [Did("create_invoice", r.outcome, request.dc_number,
                              request.invoice_date, r.detail, {}) EXCEPT !.req = request]
    /\ nops' = nops - 1
    /\ UNCHANGED <<conn, lock, scope>>

DeleteInvoice ==
    /\ nops > 0 /\ lock = NULL
    /\ \E n \in Requests.inv_numbers :
           LET r == delete_invoice_endpoint(db, n)
           IN /\ db' = r.db
              /\ last' = Did("delete_invoice", r.outcome, n, NoDate, NULL, {})
    /\ nops' = nops - 1
    /\ UNCHANGED <<conn, lock, scope>>

UploadSRVs ==
    /\ nops > 0 /\ lock = NULL
    /\ \E files \in Requests.uploads :
           LET r == upload_batch_srvs(db, files)
           IN /\ db' = r.db
              /\ last' = [Did("upload_srvs", r.outcome, NULL, NoDate, NULL, r.ok)
                              EXCEPT !.req = files, !.batches = r.batches]
    /\ nops' = nops - 1
    /\ UNCHANGED <<conn, lock, scope>>

DeleteSRV ==
    /\ nops > 0 /\ lock = NULL
    /\ \E n \in Requests.srv_numbers :
           LET r == delete_srv_endpoint(db, n)
           IN /\ db' = db_transaction(db, r)
              /\ last' = Did("delete_srv", r.outcome, n, NoDate, NULL, {})
    /\ nops' = nops - 1
    /\ UNCHANGED <<conn, lock, scope>>

Next ==
    \/ IngestPO
    \/ CreateDC
    \/ UpdateDC
    \/ DeleteDC
    \/ CreateInvoice
    \/ DeleteInvoice
    \/ UploadSRVs
    \/ DeleteSRV

\* every request, three operations deep
Spec == Init /\ [][Next]_vars

\* few documents, five operations deep
SpecChain == InitChain /\ [][Next]_vars

\* the end-to-end scenario and what else can happen around it
SpecScenario == InitScenario /\ [][Next]_vars

\* two DCs and the invoices of two financial years, seven operations deep
SpecYears == InitYears /\ [][Next]_vars

\* SRV lines that state an ordered quantity, four operations deep
SpecDeviation == InitDeviation /\ [][Next]_vars

\* DCs of several lines for one PO item, four operations deep
SpecGuard == InitGuard /\ [][Next]_vars

\* SRVs naming a DC number that two financial years use, four operations deep
SpecLink == InitLink /\ [][Next]_vars

\* SRV lines with and without an accepted quantity, three operations deep
SpecAccept == InitAccept /\ [][Next]_vars

\* files of several batches of SRVs, three operations deep
SpecBatch == InitBatch /\ [][Next]_vars

ReconcileAll ==
    /\ nops > 0 /\ lock = NULL
    /\ LET r == reconcile_all(db)
       IN /\ db' = r.db
          /\ last' = Did("reconcile_all", r.outcome, NULL, NoDate, NULL, {})
    /\ nops' = nops - 1
    /\ UNCHANGED <<conn, lock, scope>>

\* the endpoints and the global reconciliation
NextReconcile ==
    \/ IngestPO
    \/ CreateDC
    \/ UpdateDC
    \/ DeleteDC
    \/ CreateInvoice
    \/ DeleteInvoice
    \/ UploadSRVs
    \/ DeleteSRV
    \/ ReconcileAll

SpecReconcile == InitChain /\ [][NextReconcile]_vars

\* POs ingested and re-ingested while DCs are created and deleted
NextAmend ==
    \/ IngestPO
    \/ CreateDC
    \/ DeleteDC

SpecAmend == InitAmend /\ [][NextAmend]_vars

\* a DC creation in which the reconciliation raises
CreateDCSyncRaises ==
    /\ nops > 0 /\ lock = NULL
    /\ \E dc \in Requests.dc_headers, items \in Requests.dc_items :
           LET r == api_create_dc_sync_raises(db, dc, items)
           IN /\ r.raised
              /\ db' = r.db
              /\ last' = [Did("create_dc_sync_raises", r.outcome, dc.dc_number, dc.dc_date,
                              items[1].dsp_qty, {}) EXCEPT !.req = items]
    /\ nops' = nops - 1
    /\ UNCHANGED <<conn, lock, scope>>

\* an SRV upload in which the reconciliation raises
UploadSRVsSyncRaises ==
    /\ nops > 0 /\ lock = NULL
    /\ \E files \in Requests.uploads :
           LET r == upload_batch_srvs_sync_raises(db, files)
           IN /\ r.raised
              /\ db' = r.db
              /\ last' = [Did("upload_srvs_sync_raises", r.outcome, NULL, NoDate, NULL, r.ok)
                              EXCEPT !.req = files, !.batches = r.batches]
    /\ nops' = nops - 1
    /\ UNCHANGED <<conn, lock, scope>>

\* requests served while the statements of sync_po may fail
NextFault ==
    \/ IngestPO
    \/ CreateDC
    \/ UploadSRVs
    \/ CreateDCSyncRaises
    \/ UploadSRVsSyncRaises

SpecFault == InitFault /\ [][NextFault]_vars

\* ------------------------------------------------- concurrent DC creations
\* Two clients, each on its own connection, request a DC creation at the same
\* time.  The endpoint runs inside db_transaction: BEGIN IMMEDIATE waits until
\* no other connection holds the write lock (the wait is assumed to end within
\* busy_timeout), the handler then works on the connection's view of the
\* database, and COMMIT or ROLLBACK releases the lock.
Conns == {1, 2}

Idle == [pc |-> "idle", dc |-> [dc_number |-> NULL, dc_date |-> NoDate,
                                 po_number |-> NULL, gc_number |-> NULL],
         items |-> <<>>, alone |-> FALSE, work |-> EmptyDB, outcome |-> ""]

InitRace ==
    /\ db = EmptyDB
    /\ conn = [c \in Conns |-> Idle]
    /\ lock = NULL
    /\ last = Did("none", "OK", NULL, NoDate, NULL, {})
    /\ nops = MaxSetup
    /\ scope = "race"

\* remaining capacity of a PO item
remaining(d, i) == d.purchase_order_items[i].ord_qty - SumDsp(d, i)

\* both requests reach the server; `alone` records whether the request would
\* be accepted if it were the only one, last.detail the capacity left for
\* the item the first one dispatches
Arrive ==
    /\ \A c \in Conns : conn[c].pc = "idle"
    /\ lock = NULL
    /\ \E dcs \in [Conns -> Race.dc_headers], its \in [Conns -> Race.dc_items] :
          /\ conn' = [c \in Conns |->
                         [Idle EXCEPT !.pc = "begin", !.dc = dcs[c], !.items = its[c],
                                      !.alone = (api_create_dc(db, dcs[c], its[c]).outcome = "OK")]]
          /\ last' = Did("arrive", "OK", NULL, NoDate, remaining(db, its[1][1].po_item_id), {})
    /\ nops' = 0
    /\ UNCHANGED <<db, lock, scope>>

\* a BEGIN that does not take the write lock
begin_deferred(lk) == TRUE

\* BEGIN IMMEDIATE succeeds when no connection holds the write lock
begin_immediate(lk) == lk = NULL

Begin(c) ==
    /\ conn[c].pc = "begin"
    /\ begin_immediate(lock)
    /\ lock' = c
    /\ conn' = [conn EXCEPT ![c].pc = "run"]
    /\ UNCHANGED <<db, last, nops, scope>>

\* the handler of POST /dc, on the connection
Run(c) ==
    /\ conn[c].pc = "run"
    /\ LET r == IF conn[c].items = <<>> THEN [db |-> db, outcome |-> "VALIDATION_ERROR"]
                 ELSE create_dc(db, conn[c].dc, conn[c].items)
       IN conn' = [conn EXCEPT ![c].pc = "end", ![c].work = r.db, ![c].outcome = r.outcome]
    /\ UNCHANGED <<db, lock, last, nops, scope>>

\* COMMIT when the handler returned, ROLLBACK when it raised
End(c) ==
    /\ conn[c].pc = "end"
    /\ db' = db_transaction(db, [db |-> conn[c].work, outcome |-> conn[c].outcome])
    /\ lock' = NULL
    /\ conn' = [conn EXCEPT ![c].pc = "done", ![c].work = EmptyDB]
    /\ last' = Did("create_dc", conn[c].outcome, conn[c].dc.dc_number, conn[c].dc.dc_date,
                   last.detail, {})
    /\ UNCHANGED <<nops, scope>>

NextRace ==
    \/ IngestPO
    \/ CreateDC
    \/ Arrive
    \/ \E c \in Conns : Begin(c)
    \/ \E c \in Conns : Run(c)
    \/ \E c \in Conns : End(c)

\* some POs and DCs, then two concurrent DC creations
SpecRace == InitRace /\ [][NextRace]_vars

\* ------------------------------------- an SRV upload beside a DC creation
\* POST /srv/upload/batch is an async handler on the event loop, POST /dc a
\* sync handler on a worker thread, each on its own connection.  The upload is
\* not wrapped in db_transaction: process_srv_batch opens its transaction with
\* BEGIN TRANSACTION, which takes no lock; the first SELECT fixes the
\* connection's view of the database, the first INSERT or DELETE asks for the
\* write lock.
ArriveMixed ==
    /\ \A c \in Conns : conn[c].pc = "idle"
    /\ lock = NULL
    /\ \E u \in Conns, files \in Race.uploads, dc \in Race.dc_headers, items \in Race.dc_items :
          /\ conn' = [c \in Conns |->
                         IF c = u
                         THEN [pc |-> "srv_begin", files |-> files, cx |-> Connect(db)]
                         ELSE [Idle EXCEPT !.pc = "begin", !.dc = dc, !.items = items,
                                           !.alone = (api_create_dc(db, dc, items).outcome = "OK")]]
          /\ last' = [Did("arrive", "OK", NULL, NoDate, NULL, {}) EXCEPT !.req = files]
    /\ nops' = 0
    /\ UNCHANGED <<db, lock, scope>>

\* the batch of the uploaded file (one file of at most BatchSize SRVs)
srv_batch_of(c) == conn[c].files[1]

\* db.execute("BEGIN TRANSACTION"): a deferred transaction, no lock is taken
BeginBatch(c) ==
    /\ conn[c].pc = "srv_begin"
    /\ conn' = [conn EXCEPT ![c].pc = "srv_read", ![c].cx.in_tx = TRUE]
    /\ UNCHANGED <<db, lock, last, nops, scope>>

\* validate_po_exists and the SELECT of the existing SRV: the connection reads
\* the committed database; later statements of the transaction see this view
ReadBatch(c) ==
    /\ conn[c].pc = "srv_read"
    /\ conn' = [conn EXCEPT ![c].pc = "srv_write", ![c].cx.committed = db, ![c].cx.work = db]
    /\ UNCHANGED <<db, lock, last, nops, scope>>

\* delete_srv_fast and ingest_srv_batch: the first of their statements asks for
\* the write lock.  It is granted when no connection holds it and nothing was
\* committed since the view was taken; otherwise the statements fail with
\* 'database is locked' (at once, or when busy_timeout ends), both functions
\* catch the error and nothing is written.  A batch of which no SRV names a
\* known PO executes neither.
WriteBatch(c) ==
    /\ conn[c].pc = "srv_write"
    /\ LET cx == conn[c].cx
           batch == srv_batch_of(c)
           writes == \E k \in 1..Len(batch) : validate_po_exists(cx.work, batch[k].header.po_number)
       IN IF writes /\ lock = NULL /\ db = cx.committed
          THEN /\ lock' = c
               /\ conn' = [conn EXCEPT ![c].pc = "srv_commit", ![c].cx = srv_batch_loop(cx, batch)]
          ELSE /\ lock' = lock
               /\ conn' = [conn EXCEPT ![c].pc = "srv_commit"]
    /\ UNCHANGED <<db, last, nops, scope>>

\* db.commit() of the batch
CommitBatch(c) ==
    /\ conn[c].pc = "srv_commit"
    /\ db' = IF lock = c THEN conn[c].cx.work ELSE db
    /\ lock' = IF lock = c THEN NULL ELSE lock
    /\ conn' = [conn EXCEPT ![c].pc = "srv_sync", ![c].cx = commit([@ EXCEPT !.work = db'])]
    /\ UNCHANGED <<last, nops, scope>>

\* reconcile_po_fast for the POs of the batch, after the commit: its UPDATEs
\* open a transaction and take the write lock, or fail when another connection
\* holds it; the handler of process_srv_batch then rolls back and marks the
\* batch failed
SyncBatch(c) ==
    /\ conn[c].pc = "srv_sync"
    /\ LET batch == srv_batch_of(c)
           po_numbers == {batch[k].header.po_number : k \in 1..Len(batch)} \ {NULL}
           c1 == [conn[c].cx EXCEPT !.committed = db, !.work = db]
           c2 == srv_batch_reconcile(c1, po_numbers)
       IN IF ~c2.in_tx
          THEN /\ lock' = lock
               /\ conn' = [conn EXCEPT ![c].pc = "srv_close",
                                       ![c].cx = [c2 EXCEPT !.batches = Append(@, "committed")]]
          ELSE IF lock = NULL
          THEN /\ lock' = c
               /\ conn' = [conn EXCEPT ![c].pc = "srv_close",
                                       ![c].cx = [c2 EXCEPT !.batches = Append(@, "committed")]]
          ELSE /\ lock' = lock
               /\ conn' = [conn EXCEPT ![c].pc = "srv_close",
                                       ![c].cx = [rollback(c1) EXCEPT !.batches = Append(@, "failed")]]
    /\ UNCHANGED <<db, last, nops, scope>>

\* the request ends and get_db closes the connection: what it has not
\* committed is discarded and its lock released
CloseUpload(c) ==
    /\ conn[c].pc = "srv_close"
    /\ db' = db
    /\ lock' = IF lock = c THEN NULL ELSE lock
    /\ last' = [Did("upload_srvs", "OK", NULL, NoDate, NULL, conn[c].cx.ok)
                    EXCEPT !.req = conn[c].files, !.batches = conn[c].cx.batches]
    /\ conn' = [conn EXCEPT ![c] = [Idle EXCEPT !.pc = "done"]]
    /\ UNCHANGED <<nops, scope>>

NextOverlap ==
    \/ IngestPO
    \/ CreateDC
    \/ ArriveMixed
    \/ \E c \in Conns : Begin(c)
    \/ \E c \in Conns : Run(c)
    \/ \E c \in Conns : End(c)
    \/ \E c \in Conns : BeginBatch(c)
    \/ \E c \in Conns : ReadBatch(c)
    \/ \E c \in Conns : WriteBatch(c)
    \/ \E c \in Conns : CommitBatch(c)
    \/ \E c \in Conns : SyncBatch(c)
    \/ \E c \in Conns : CloseUpload(c)

\* some POs and DCs, then an SRV upload and a DC creation at the same time
SpecOverlap == InitRace /\ [][NextOverlap]_vars

\* --------------------------------------------------------- status derivation
\* calculate_entity_status applied to every triple of quantities, null included
StatusQtys == {NoQty} \cup 0..MaxStatusQty

InitStatus ==
    /\ db = EmptyDB
    /\ conn = <<>>
    /\ lock = NULL
    /\ last = Did("none", "", NULL, NoDate, <<NoQty, NoQty, NoQty>>, {})
    /\ nops = 0
    /\ scope = "status"

Classify ==
    /\ \E o \in StatusQtys, d \in StatusQtys, r \in StatusQtys :
          last' = Did("calculate_entity_status", calculate_entity_status(o, d, r),
                      NULL, NoDate, <<o, d, r>>, {})
    /\ UNCHANGED <<db, conn, lock, nops, scope>>

NextStatus == Classify

SpecStatus == InitStatus /\ [][NextStatus]_vars

\* ================================================================== claims
\* C1: in every reachable state, whatever POs were ingested or re-ingested
\* and whatever DCs were created, updated or deleted, the DC items that
\* reference a PO item dispatch in total at most its current ord_qty + 0.001.
C1_DispatchWithinOrder ==
    \A i \in ItemIds :
        db.purchase_order_items[i].present
            => SumDsp(db, i) <= db.purchase_order_items[i].ord_qty + TOLERANCE

\* C2: two concurrent DC creations for the same PO item, each accepted when
\* alone but together above the remaining capacity: under every interleaving
\* exactly one commits its DC and the other is rejected with the business-rule
\* violation of the over-dispatch rule R-01.
RacePremise ==
    /\ scope = "race"
    /\ \A c \in Conns : conn[c].pc = "done" /\ conn[c].alone
    /\ conn[1].dc.dc_number # conn[2].dc.dc_number
    /\ conn[1].items[1].po_item_id = conn[2].items[1].po_item_id
    /\ conn[1].items[1].dsp_qty + conn[2].items[1].dsp_qty > last.detail + TOLERANCE

DCOps == {"create_dc", "update_dc", "delete_dc"}

ItemsOfDC(d, n) ==
    {d.delivery_challan_items[k].po_item_id :
        k \in {j \in 1..Len(d.delivery_challan_items) : d.delivery_challan_items[j].dc_number = n}}

C3_DspIsLiveSum ==
    [][(nops' # nops /\ last'.op \in DCOps /\ last'.outcome = "OK")
          => \A i \in ItemsOfDC(db, last'.key) \cup ItemsOfDC(db', last'.key) :
                HasDCItem(db', i)
                    => db'.purchase_order_items[i].dsp_qty = SumDsp(db', i)]_vars

\* C4: when an SRV batch upload has returned, the committed database has, for
\* every item of every PO named by a successfully ingested SRV, rcd_qty and
\* rej_qty equal to the sums over the stored SRV items of that PO item: no
\* committed state holds the new SRV rows with un-refreshed quantities.
ReceiptsAreLiveSums(d, po) ==
    \A i \in ItemsOfPO(d, po) :
        /\ d.purchase_order_items[i].rcd_qty = SumRcd(d, i)
        /\ d.purchase_order_items[i].rej_qty = SumRej(d, i)

C4_UploadReconciled ==
    last.op = "upload_srvs"
        => \A k \in 1..Len(db.srvs) :
              db.srvs[k].srv_number \in last.ok => ReceiptsAreLiveSums(db, db.srvs[k].po_number)

\* C5: after a successful SRV delete every item of the deleted SRV's PO has
\* rcd_qty and rej_qty equal to the sums over the remaining SRV items, in the
\* state that also no longer holds the SRV's header and items.
SrvRows(d, n) == SelectSeq(d.srvs, LAMBDA r : r.srv_number = n)

C5_DeleteReconciled ==
    [][(nops' # nops /\ last'.op = "delete_srv" /\ last'.outcome = "OK")
          => /\ SrvRows(db, last'.key) # <<>>
             /\ SrvRows(db', last'.key) = <<>>
             /\ \A k \in 1..Len(db'.srv_items) : db'.srv_items[k].srv_number # last'.key
             /\ ReceiptsAreLiveSums(db', Head(SrvRows(db, last'.key)).po_number)]_vars

C5_Witness ==
    /\ last.op = "delete_srv" /\ last.outcome = "OK"
    /\ db.srv_items # <<>>
    /\ \E i \in ItemIds : db.purchase_order_items[i].rcd_qty > 0

Item10 == <<1, 1>>

DispatchedBy(d) == [k \in 1..Len(d.delivery_challan_items) |-> d.delivery_challan_items[k].dsp_qty]

ItemIs(d, dsp, status, pending) ==
    /\ d.purchase_order_items[Item10].dsp_qty = dsp
    /\ d.purchase_order_items[Item10].status = status
    /\ d.purchase_order_items[Item10].pending_qty = pending

Creates(qty) ==
    /\ nops' # nops /\ last'.op = "create_dc" /\ last'.detail = qty
    /\ DCRows(db, last'.key) = <<>>
    /\ db.purchase_order_items[Item10].present
    /\ db.purchase_order_items[Item10].ord_qty = 100 * Unit

C7_Scenario ==
    [][/\ (Creates(60 * Unit) /\ DispatchedBy(db) = <<>>)
            => /\ last'.outcome = "OK"
               /\ ItemIs(db', 60 * Unit, "Pending", 40 * Unit)
       /\ (Creates(45 * Unit) /\ DispatchedBy(db) = <<60 * Unit>>)
            => /\ last'.outcome = "BUSINESS_RULE_VIOLATION"
               /\ db' = db
       /\ (Creates(40 * Unit) /\ DispatchedBy(db) = <<60 * Unit>>)
            => /\ last'.outcome = "OK"
               /\ ItemIs(db', 100 * Unit, "Delivered", 0)]_vars

\* C8: creating a DC whose number is that of a stored DC dated in the same
\* April-March financial year (a month >= 4 starts the year in its calendar
\* year, an earlier month in the previous one) is rejected and writes nothing;
\* with the number stored only in other financial years the creation is
\* accepted (when the PO items have the capacity the DC dispatches).
FYStart(date) == IF date[2] >= 4 THEN date[1] ELSE date[1] - 1

StoredInFY(d, n, date) ==
    \E k \in 1..Len(d.delivery_challans) :
        /\ d.delivery_challans[k].dc_number = n
        /\ FYStart(d.delivery_challans[k].dc_date) = FYStart(date)

Requested(items, i) ==
    SumSeq([k \in 1..Len(items) |->
              IF items[k].po_item_id = i THEN items[k].dsp_qty ELSE 0])

HasCapacity(d, items) ==
    \A k \in 1..Len(items) :
        /\ d.purchase_order_items[items[k].po_item_id].present
        /\ Requested(items, items[k].po_item_id) <= remaining(d, items[k].po_item_id)

C8_FYScopedNumber ==
    [][(nops' # nops /\ last'.op = "create_dc")
          => /\ StoredInFY(db, last'.key, last'.date)
                   => (last'.outcome # "OK" /\ db' = db)
             /\ (/\ DCRows(db, last'.key) # <<>>
                 /\ ~StoredInFY(db, last'.key, last'.date)
                 /\ HasCapacity(db, last'.req))
                   => /\ last'.outcome = "OK"
                      /\ Len(DCRows(db', last'.key)) = Len(DCRows(db, last'.key)) + 1]_vars

C8_Witness ==
    /\ last.op = "create_dc" /\ last.outcome = "OK"
    /\ \E k \in 1..Len(db.delivery_challans) :
          /\ db.delivery_challans[k].dc_number = last.key
          /\ FYStart(db.delivery_challans[k].dc_date) # FYStart(last.date)

\* C9 (as claimed): in every reachable state at most one invoice references a
\* DC; an attempt to create a second invoice for a DC that has one is rejected
\* with a conflict error whose details name the existing invoice number, and
\* writes no invoice header and no invoice item.
InvoicesOf(d, dc_number) == SelectSeq(d.gst_invoices, LAMBDA r : r.dc_number = dc_number)

OneInvoicePerDC(d) == \A n \in DCNumbers : Len(InvoicesOf(d, n)) <= 1

SecondInvoice ==
    /\ nops' # nops /\ last'.op = "create_invoice"
    /\ InvoicesOf(db, last'.req.dc_number) # <<>>

WritesNoInvoice ==
    /\ db'.gst_invoices = db.gst_invoices
    /\ db'.gst_invoice_items = db.gst_invoice_items

NamesExistingInvoice ==
    /\ last'.outcome = "CONFLICT"
    /\ last'.detail = Head(InvoicesOf(db, last'.req.dc_number)).invoice_number

NumberStoredInFY(d, number, date) ==
    \E k \in 1..Len(d.gst_invoices) :
        /\ d.gst_invoices[k].invoice_number = number
        /\ FYStart(d.gst_invoices[k].invoice_date) = FYStart(date)

ChallanOfSrvItem(d, dc_number) ==
    \E k \in 1..Len(d.srv_items) : d.srv_items[k].challan_no = dc_number

C10_LinkedDCNotDeleted ==
    [][(/\ nops' # nops /\ last'.op = "delete_dc"
        /\ (InvoicesOf(db, last'.key) # <<>> \/ ChallanOfSrvItem(db, last'.key)))
          => /\ last'.outcome = "CONFLICT"
             /\ db'.delivery_challans = db.delivery_challans
             /\ db'.delivery_challan_items = db.delivery_challan_items
             /\ db'.purchase_order_items = db.purchase_order_items]_vars

C10_Witness ==
    /\ last.op = "delete_dc" /\ last.outcome = "CONFLICT"
    /\ DCRows(db, last.key) # <<>>
    /\ InvoicesOf(db, last.key) = <<>>
    /\ ChallanOfSrvItem(db, last.key)

\* C11: deleting an invoice is rejected with a conflict error whenever an SRV
\* item has the challan_no of the DC of an invoice with that number, and the
\* invoice headers and the invoice items then stay stored as they were.
InvoiceOfReceivedDC(d, invoice_number) ==
    \E k \in 1..Len(d.gst_invoices) :
        /\ d.gst_invoices[k].invoice_number = invoice_number
        /\ ChallanOfSrvItem(d, d.gst_invoices[k].dc_number)

C11_ReceivedInvoiceNotDeleted ==
    [][(/\ nops' # nops /\ last'.op = "delete_invoice"
        /\ InvoiceOfReceivedDC(db, last'.key))
          => /\ last'.outcome = "CONFLICT"
             /\ db'.gst_invoices = db.gst_invoices
             /\ db'.gst_invoice_items = db.gst_invoice_items]_vars

\* C12 (as claimed): ingesting an SRV line whose stated ord_qty differs from
\* the ord_qty of the matching PO item by more than 0.001 stores the SRV
\* header and the SRV item, reports success, and leaves exactly one
\* unresolved QTY_MISMATCH deviation for that line, with expected = the PO
\* item's ord_qty and actual = the line's ord_qty.
UploadedSrv == last'.req[1][1]

UploadedLine == UploadedSrv.items[1]

MatchingItem == <<UploadedSrv.header.po_number, UploadedLine.po_item_no>>

StatesMismatch ==
    /\ nops' # nops /\ last'.op = "upload_srvs"
    /\ db.purchase_order_items[MatchingItem].present
    /\ UploadedLine.ord_qty # NoQty
    /\ Abs(UploadedLine.ord_qty - db.purchase_order_items[MatchingItem].ord_qty) > TOLERANCE

MismatchesOf(d, srv) ==
    SelectSeq(d.deviations,
              LAMBDA r : /\ r.deviation_type = "QTY_MISMATCH"
                         /\ r.entity_id = srv_item_id(srv.header, srv.items[1])
                         /\ ~r.is_resolved)

StoredAndReported ==
    /\ SrvRows(db', UploadedSrv.header.srv_number) # <<>>
    /\ \E k \in 1..Len(db'.srv_items) :
          /\ db'.srv_items[k].id = srv_item_id(UploadedSrv.header, UploadedLine)
          /\ db'.srv_items[k].ord_qty = UploadedLine.ord_qty
    /\ UploadedSrv.header.srv_number \in last'.ok

LastMismatchRecords ==
    LET m == MismatchesOf(db', UploadedSrv)
    IN /\ m # <<>>
       /\ m[Len(m)].expected_value = db.purchase_order_items[MatchingItem].ord_qty
       /\ m[Len(m)].actual_value = UploadedLine.ord_qty

DispatchedByOthers(d, n, i) == SumDsp(d, i) - SumDspOfDC(d, n, i)

FitsBesideOthers(d, n, items) ==
    \A k \in 1..Len(items) :
        LET i == items[k].po_item_id
        IN /\ d.purchase_order_items[i].present
           /\ Requested(items, i)
                 <= d.purchase_order_items[i].ord_qty - DispatchedByOthers(d, n, i) + TOLERANCE

C13_OwnDCUpdatable ==
    [][(/\ nops' # nops /\ last'.op = "update_dc"
        /\ DCRows(db, last'.key) # <<>>
        /\ \A k \in 1..Len(DCRows(db, last'.key)) :
               DCRows(db, last'.key)[k].dc_date = last'.date
        /\ InvoicesOf(db, last'.key) = <<>>
        /\ FitsBesideOthers(db, last'.key, last'.req))
          => last'.outcome = "OK"]_vars

\* C14: in every committed state, whatever operations led to it, the
\* re-ingestion of a PO that has DCs included, every PO item that a stored DC
\* item references has stored dsp_qty equal to the sum of dsp_qty over the
\* stored DC items referencing it.
C14_DspAlwaysLiveSum ==
    \A i \in ItemIds :
        HasDCItem(db, i) => db.purchase_order_items[i].dsp_qty = SumDsp(db, i)

\* C15: when the reconciliation (sync_po) raises while a DC is being created or
\* while an SRV batch is being ingested, no row of that DC or of those SRVs is
\* committed and the caller is told that the operation failed.
C15_SyncFailureAborts ==
    [][/\ (last'.op = "create_dc_sync_raises" /\ nops' # nops) =>
            /\ db'.delivery_challans = db.delivery_challans
            /\ db'.delivery_challan_items = db.delivery_challan_items
            /\ last'.outcome # "OK"
       /\ (last'.op = "upload_srvs_sync_raises" /\ nops' # nops) =>
            /\ db'.srvs = db.srvs
            /\ db'.srv_items = db.srv_items
            /\ last'.ok = {}]_vars
\* the creation of DC n passes every check before the guarded inserts and one
\* of the inserts affects no row
GuardRejects(d, n, date, items) ==
    /\ ~check_duplicate_number(d, "DC", n, date).exists
    /\ ~gc_exists(d, n, date, NULL)
    /\ validate_dc_header(d, n, date) = "OK"
    /\ validate_dc_items(d, items, NULL) = "OK"
    /\ insert_dc_items(d, n, items).outcome = "BUSINESS_RULE_VIOLATION"

\* C16: a DC creation rejected by the R-01 guard, also on a later item after the
\* header and earlier items were inserted, leaves the DC tables without any row
\* of that DC and every PO item's dsp_qty, pending_qty and status as before.
C16_GuardRejectionRollsBack ==
    [][(/\ nops' # nops
        /\ last'.op = "create_dc"
        /\ GuardRejects(db, last'.key, last'.date, last'.req)) =>
            /\ last'.outcome = "BUSINESS_RULE_VIOLATION"
            /\ db'.delivery_challans = db.delivery_challans
            /\ db'.delivery_challan_items = db.delivery_challan_items
            /\ \A i \in ItemIds :
                   /\ db'.purchase_order_items[i].dsp_qty = db.purchase_order_items[i].dsp_qty
                   /\ db'.purchase_order_items[i].pending_qty = db.purchase_order_items[i].pending_qty
                   /\ db'.purchase_order_items[i].status = db.purchase_order_items[i].status]_vars

\* a DC of two lines was rejected at its second line, after the first was inserted
C16_Witness ==
    /\ last.op = "create_dc"
    /\ last.outcome = "BUSINESS_RULE_VIOLATION"
    /\ Len(last.req) = 2
    /\ GuardRejects(db, last.key, last.date, last.req)
    /\ inventory_guard(db, last.req[1].po_item_id, last.req[1].dsp_qty)
    /\ \A k \in 1..Len(db.delivery_challans) : db.delivery_challans[k].dc_number # last.key
\* the DCs of that number stored in d
DCsNumbered(d, n) == {k \in 1..Len(d.delivery_challans) : d.delivery_challans[k].dc_number = n}

SameYearDC(d, n, date) ==
    \E k \in DCsNumbered(d, n) :
        get_financial_year(d.delivery_challans[k].dc_date) = get_financial_year(date)

\* C17: an SRV item is stored with a non-null challan_no only if, when it is
\* ingested, a DC of that number is dated in the financial year of the SRV's
\* date; when the only DC of that number lies in another financial year, or the
\* SRV has no date, the item is stored with challan_no null.
C17_LinkOnlyWithinYear ==
    [][(nops' # nops /\ last'.op = "upload_srvs") =>
          \A k \in 1..Len(db'.srv_items) :
              db'.srv_items[k].srv_number = UploadedSrv.header.srv_number =>
                  /\ db'.srv_items[k].challan_no # NULL =>
                         /\ UploadedSrv.header.srv_date # NoDate
                         /\ db'.srv_items[k].challan_no = UploadedLine.challan_no
                         /\ SameYearDC(db, UploadedLine.challan_no, UploadedSrv.header.srv_date)
                  /\ (\/ UploadedSrv.header.srv_date = NoDate
                      \/ /\ DCsNumbered(db, UploadedLine.challan_no) # {}
                         /\ ~SameYearDC(db, UploadedLine.challan_no, UploadedSrv.header.srv_date))
                         => db'.srv_items[k].challan_no = NULL]_vars

\* one SRV item is stored with its DC reference, and the SRV uploaded last, which
\* names a DC dated in another financial year, is stored without one
C17_Witness ==
    /\ last.op = "upload_srvs"
    /\ last.req[1][1].items[1].challan_no # NULL
    /\ last.req[1][1].header.srv_date # NoDate
    /\ DCsNumbered(db, last.req[1][1].items[1].challan_no) # {}
    /\ \E k \in 1..Len(db.srv_items) :
           /\ db.srv_items[k].srv_number = last.req[1][1].header.srv_number
           /\ db.srv_items[k].challan_no = NULL
    /\ \E k \in 1..Len(db.srv_items) : db.srv_items[k].challan_no # NULL
\* a DC, or an invoice, of that number dated in the financial year of `date`
DCInYear(d, n, date) ==
    \E k \in 1..Len(d.delivery_challans) :
        /\ d.delivery_challans[k].dc_number = n
        /\ get_financial_year(d.delivery_challans[k].dc_date) = get_financial_year(date)

InvoiceInYear(d, n, date) ==
    \E k \in 1..Len(d.gst_invoices) :
        /\ d.gst_invoices[k].invoice_number = n
        /\ get_financial_year(d.gst_invoices[k].invoice_date) = get_financial_year(date)

C19_AcceptedDefaults ==
    [][(/\ nops' # nops /\ last'.op = "upload_srvs"
        /\ UploadedLine.accepted_qty = NoQty) =>
           \A k \in 1..Len(db'.srv_items) :
               db'.srv_items[k].id = srv_item_id(UploadedSrv.header, UploadedLine) =>
                   db'.srv_items[k].accepted_qty
                       = db'.srv_items[k].rcd_qty - db'.srv_items[k].rej_qty]_vars
\* the POs that the operation that just returned successfully has reconciled
\* (a DC operation reconciles the PO named by the first header of its number)
SyncedPOs ==
    IF last'.outcome # "OK" \/ nops' = nops THEN {}
    ELSE IF last'.op \in {"create_dc", "update_dc"}
    THEN {DCRows(db', last'.key)[k].po_number : k \in {1} \cap DOMAIN DCRows(db', last'.key)}
    ELSE IF last'.op = "delete_dc"
    THEN {DCRows(db, last'.key)[k].po_number : k \in {1} \cap DOMAIN DCRows(db, last'.key)}
    ELSE IF last'.op = "delete_srv"
    THEN {db.srvs[k].po_number : k \in {j \in 1..Len(db.srvs) : db.srvs[j].srv_number = last'.key}}
    ELSE IF last'.op = "upload_srvs" /\ last'.ok # {}
    THEN {UploadedSrv.header.po_number}
    ELSE {}

\* C20: after sync_po(po), triggered by a DC creation, update or deletion or by
\* an SRV creation or deletion, every item of that PO has the status that
\* calculate_entity_status gives for the ord_qty, dsp_qty and rcd_qty stored
\* after the reconciliation.
C20_StatusFromRefreshedQuantities ==
    [][\A po \in SyncedPOs \cap PONumbers :
          \A i \in ItemsOfPO(db', po) :
              db'.purchase_order_items[i].status
                  = calculate_entity_status(db'.purchase_order_items[i].ord_qty,
                                            db'.purchase_order_items[i].dsp_qty,
                                            db'.purchase_order_items[i].rcd_qty)]_vars
\* the status of the PO-wide sums of the quantities stored in d
StatusOfTotals(d, po) ==
    LET items == ItemsOfPO(d, po)
    IN calculate_entity_status(
           SumSet(items, [i \in items |-> d.purchase_order_items[i].ord_qty]),
           SumSet(items, [i \in items |-> d.purchase_order_items[i].dsp_qty]),
           SumSet(items, [i \in items |-> d.purchase_order_items[i].rcd_qty]))

\* C21: after sync_po(po), for a PO with at least one item, the stored po_status
\* is calculate_entity_status of the sums of ord_qty, dsp_qty and rcd_qty over
\* the PO's items as stored after the reconciliation: in the database that a
\* DC creation, update or deletion or an SRV deletion commits, and when
\* sync_po is run on any database the requests have produced.
C21_StatusOfRefreshedTotals ==
    [][/\ \A po \in SyncedPOs \cap PONumbers :
              (last'.op # "upload_srvs" /\ ItemsOfPO(db', po) # {}) =>
                  db'.purchase_orders[po].po_status = StatusOfTotals(db', po)
       /\ \A po \in PONumbers :
              ItemsOfPO(db', po) # {} =>
                  sync_po(db', po).purchase_orders[po].po_status
                      = StatusOfTotals(sync_po(db', po), po)]_vars

\* a DC creation has just reconciled a PO whose items are dispatched in full
C21_Witness ==
    /\ last.op = "create_dc" /\ last.outcome = "OK"
    /\ \E po \in PONumbers :
           /\ ItemsOfPO(db, po) # {}
           /\ \E k \in DCsNumbered(db, last.key) : db.delivery_challans[k].po_number = po
           /\ db.purchase_orders[po].po_status = "Delivered"
           /\ \A i \in ItemsOfPO(db, po) :
                  db.purchase_order_items[i].dsp_qty = db.purchase_order_items[i].ord_qty
\* no stored DC item references PO item i
Unreferenced(d, i) ==
    \A k \in 1..Len(d.delivery_challan_items) : d.delivery_challan_items[k].po_item_id # i

BatchOf(file, j) ==
    {file[k] : k \in {n \in 1..Len(file) : (j - 1) * BatchSize < n /\ n <= j * BatchSize}}

\* the SRV is stored in d with the item of its line
StoredSrv(d, srv) ==
    /\ SrvRows(d, srv.header.srv_number) # <<>>
    /\ \E k \in 1..Len(d.srv_items) : d.srv_items[k].id = srv_item_id(srv.header, srv.items[1])

\* C23: when batch k of an SRV file fails, only batch k is rolled back: the SRVs
\* that the batches 1..k-1 of the file committed are still stored.
C23_EarlierBatchesKept ==
    [][(nops' # nops /\ last'.op = "upload_srvs") =>
          \A k \in DOMAIN last'.batches :
              last'.batches[k] = "failed" =>
                  \A j \in 1..(k - 1) :
                      last'.batches[j] = "committed" =>
                          \A srv \in BatchOf(last'.req[1], j) :
                              srv.header.srv_number \in last'.ok => StoredSrv(db', srv)]_vars

\* the second batch of a file failed after the first stored its SRVs
C23_Witness ==
    /\ last.op = "upload_srvs"
    /\ Len(last.batches) = 2
    /\ last.batches[1] = "committed" /\ last.batches[2] = "failed"
    /\ \A srv \in BatchOf(last.req[1], 1) :
           srv.header.srv_number \in last.ok /\ StoredSrv(db, srv)
    /\ \A srv \in BatchOf(last.req[1], 2) : ~StoredSrv(db, srv)
\* the number of batches of a file
Batches(file) == (Len(file) + BatchSize - 1) \div BatchSize

\* C28: when a file holds more than one batch of SRVs, all valid and for an
\* existing PO, every batch opens its transaction on the shared connection and
\* commits, and every SRV is reported successful and stored.
C28_EveryBatchCommits ==
    [][(/\ nops' # nops /\ last'.op = "upload_srvs"
        /\ Len(last'.req[1]) > BatchSize
        /\ \A k \in 1..Len(last'.req[1]) :
               /\ validate_po_exists(db, last'.req[1][k].header.po_number)
               /\ last'.req[1][k].items[1].ord_qty # NoQty) =>
           /\ last'.batches = [j \in 1..Batches(last'.req[1]) |-> "committed"]
           /\ \A k \in 1..Len(last'.req[1]) :
                  /\ last'.req[1][k].header.srv_number \in last'.ok
                  /\ StoredSrv(db', last'.req[1][k])]_vars
\* the unresolved QTY_MISMATCH deviations of an SRV item
UnresolvedMismatches(d, id) ==
    {k \in 1..Len(d.deviations) :
        /\ d.deviations[k].deviation_type = "QTY_MISMATCH"
        /\ d.deviations[k].entity_id = id
        /\ ~d.deviations[k].is_resolved}

\* C27: however often an SRV number is uploaded (the second and later uploads
\* delete and re-insert the SRV), each SRV item id has at most one unresolved
\* QTY_MISMATCH deviation.
C27_OneMismatchPerItem ==
    \A k \in 1..Len(db.deviations) :
        Cardinality(UnresolvedMismatches(db, db.deviations[k].entity_id)) <= 1
\* the lines of the uploaded file that are stored under the id
LinesWithId(file, id) ==
    {k \in 1..Len(file) : srv_item_id(file[k].header, file[k].items[1]) = id}

\* C27 (amended): each ingested SRV line adds at most one unresolved QTY_MISMATCH
\* deviation for its SRV item id, and the deviations logged by earlier uploads of
\* the SRV number are kept.
C27_OneMismatchPerLine ==
    [][(nops' # nops /\ last'.op = "upload_srvs") =>
          \A po \in PONumbers \cup {NULL}, n \in Requests.srv_numbers, i \in ItemNos :
              LET id == srv_item_id([srv_number |-> n, po_number |-> po], [po_item_no |-> i])
              IN /\ Cardinality(UnresolvedMismatches(db', id))
                        <= Cardinality(UnresolvedMismatches(db, id))
                               + Cardinality(LinesWithId(last'.req[1], id))
                 /\ Cardinality(UnresolvedMismatches(db', id))
                        >= Cardinality(UnresolvedMismatches(db, id))]_vars

\* the second upload of an SRV left a second unresolved mismatch for its line
C27_Witness ==
    /\ last.op = "upload_srvs"
    /\ Cardinality(UnresolvedMismatches(db, srv_item_id(last.req[1][1].header,
                                                        last.req[1][1].items[1]))) = 2
\* the rows of the SRV items of an SRV number
SrvItemRows(d, n) == SelectSeq(d.srv_items, LAMBDA r : r.srv_number = n)

\* C29: when ingest_srv_batch fails for an SRV of a batch (it returns False),
\* none of the SRV's writes is committed: its header is not stored without its
\* items, no deviation is logged for it, and the SRV stored before under that
\* number is still there.
C29_FailedSrvWritesNothing ==
    [][(/\ nops' # nops /\ last'.op = "upload_srvs"
        /\ validate_po_exists(db, UploadedSrv.header.po_number)
        /\ ~ingest_srv_batch(db, UploadedSrv).success) =>
           /\ UploadedSrv.header.srv_number \notin last'.ok
           /\ SrvRows(db', UploadedSrv.header.srv_number)
                  = SrvRows(db, UploadedSrv.header.srv_number)
           /\ SrvItemRows(db', UploadedSrv.header.srv_number)
                  = SrvItemRows(db, UploadedSrv.header.srv_number)
           /\ db'.deviations = db.deviations]_vars
\* the POs that the operation that returned last has reconciled as its last act
JustSynced ==
    IF last.outcome # "OK" THEN {}
    ELSE IF last.op = "reconcile_all" THEN {po \in PONumbers : db.purchase_orders[po].present}
    ELSE IF last.op \in {"create_dc", "update_dc"} /\ DCRows(db, last.key) # <<>>
    THEN {Head(DCRows(db, last.key)).po_number} \cap PONumbers
    ELSE {}

\* C30: sync_po is idempotent: run for a PO that the operation before has just
\* reconciled, with no DC or SRV row changed in between, it leaves every item's
\* dsp_qty, rcd_qty, rej_qty, pending_qty and status and the po_status as they were.
C30_SyncIdempotent ==
    [][(nops' # nops /\ last'.op = "reconcile_all") =>
          \A po \in JustSynced :
              /\ db'.purchase_orders[po].po_status = db.purchase_orders[po].po_status
              /\ \A i \in ItemsOfPO(db, po) :
                     db'.purchase_order_items[i] = db.purchase_order_items[i]]_vars
\* C24: create_dc with a DC number (or GC number) that a stored DC has in the
\* same financial year reports a conflict error (CONFLICT) to its caller, not
\* an internal error.
C24_DuplicateIsConflict ==
    [][(/\ nops' # nops /\ last'.op = "create_dc"
        /\ last'.req # <<>>
        /\ \/ DCInYear(db, last'.key, last'.date)
           \/ gc_exists(db, last'.key, last'.date, NULL)) =>
           last'.outcome = "CONFLICT"]_vars
\* the DC item rows of a DC number
DCItemRows(d, n) == SelectSeq(d.delivery_challan_items, LAMBDA r : r.dc_number = n)

\* the headers of number n stored in d that d2 still stores unchanged
KeptHeaders(d, d2, n) ==
    {k \in 1..Len(DCRows(d, n)) :
        \E j \in 1..Len(DCRows(d2, n)) : DCRows(d2, n)[j] = DCRows(d, n)[k]}

\* C26: update_dc and delete_dc applied to a DC number change only the targeted
\* DC: of the DCs stored under that number in different financial years, all
\* but the targeted one keep their header, with its date, and their items.
C26_OtherYearsUntouched ==
    [][(/\ nops' # nops /\ last'.op \in {"update_dc", "delete_dc"}
        /\ last'.outcome = "OK"
        /\ Len(DCRows(db, last'.key)) >= 2) =>
           /\ Cardinality(KeptHeaders(db, db', last'.key)) >= Len(DCRows(db, last'.key)) - 1
           /\ DCItemRows(db', last'.key) # <<>>]_vars
\* a connection that has performed the first read of its mutation and has not
\* yet committed or rolled back
HasRead(c) == conn[c].pc \in {"end", "srv_write", "srv_commit"}

\* C25: every document mutation, SRV batch ingestion included, takes the write
\* lock before its first read, so no two mutations are ever both between their
\* first read and their commit.
C25_MutationsSerialize ==
    \A c1, c2 \in Conns : (c1 # c2 /\ HasRead(c1)) => ~HasRead(c2)


====
